---- MODULE Spec2Model ----
(***************************************************************************)
(* Calibration and angle-to-screen mapping of the gaze estimation engine:  *)
(* InterpolationAgent (src/src/backend/calibration_agents.py) and          *)
(* VisionTrackingEngine (src/src/backend/vision_tracking_engine.py), whose *)
(* body src/src/gaze_estimation_engine.py repeats line for line.           *)
(*                                                                         *)
(* Python floats are binary floating-point numbers.  They are modelled as  *)
(* m * 2^e with a signed mantissa m of Prec bits, every operation rounded  *)
(* to nearest, ties to even, as IEEE 754 does it (binary64 keeps 53 bits;  *)
(* the exponent range is not modelled: no overflow, no underflow).         *)
(***************************************************************************)
EXTENDS Integers, Sequences, FiniteSets, TLC

VARIABLES calibration_map, profiles, next_id, saved, deleted, result

vars == <<calibration_map, profiles, next_id, saved, deleted, result>>

(* ------------------------------ bounds -------------------------------- *)

\* mantissa bits the model keeps
Prec == 8
\* samples a calibration map may hold before the model stops adding
MaxSamples == 2
\* profile ids the store hands out before the model stops saving
MaxProfiles == 2
\* elements of a calibration batch
MaxBatch == 2

(* --------------------------- float arithmetic ------------------------- *)

None == "None"

Abs(x) == IF x < 0 THEN -x ELSE x

Sign(x) == IF x < 0 THEN -1 ELSE 1

Max(a, b) == IF a >= b THEN a ELSE b

Min(a, b) == IF a <= b THEN a ELSE b

Zero == [m |-> 0, e |-> 0]

\* the shift k with 2^(Prec-1) <= floor(a * 2^k / d) < 2^Prec   (a, d > 0)
RECURSIVE FindShift(_, _, _)
FindShift(a, d, k) ==
    CHOOSE r \in
        {IF q < 2^(Prec - 1) THEN FindShift(a, d, k + 1)
         ELSE IF q >= 2^Prec THEN FindShift(a, d, k - 1)
         ELSE k :
            q \in {IF k >= 0 THEN (a * 2^k) \div d ELSE a \div (d * 2^(-k))}} : TRUE

\* quotient q with remainder r over den, rounded to nearest, ties to even,
\* times sgn * 2^e
Nearest(sgn, q, r, den, e) ==
    LET up == IF 2 * r > den \/ (2 * r = den /\ q % 2 = 1) THEN 1 ELSE 0
    IN  IF q + up = 2^Prec
        THEN [m |-> sgn * 2^(Prec - 1), e |-> e + 1]
        ELSE [m |-> sgn * (q + up), e |-> e]

\* the float nearest to (n / d) * 2^e, ties to even   (d > 0).  Every
\* intermediate value is bound once, by a one-element set.
RoundRat(n, d, e) ==
    CHOOSE f \in
        {IF t[1] = 0 THEN Zero
         ELSE CHOOSE g \in
            {CHOOSE h \in
                {Nearest(Sign(t[1]), nd[1] \div nd[2], nd[1] % nd[2], nd[2], t[3] - k) :
                    nd \in {IF k >= 0 THEN <<Abs(t[1]) * 2^k, t[2]>>
                                      ELSE <<Abs(t[1]), t[2] * 2^(-k)>>}} : TRUE :
                k \in {FindShift(Abs(t[1]), t[2], 0)}} : TRUE :
            t \in {<<n, d, e>>}} : TRUE

FromInt(n) == RoundRat(n, 1, 0)

\* k / 10 as a float literal
Tenths(k) == RoundRat(k, 10, 0)

FNeg(x) == [m |-> -x.m, e |-> x.e]

\* x + y
FAdd(x, y) ==
    CHOOSE f \in
        {IF p[1].m = 0 THEN p[2]
         ELSE IF p[2].m = 0 THEN p[1]
         ELSE LET hi == IF p[1].e >= p[2].e THEN p[1] ELSE p[2]
                  lo == IF p[1].e >= p[2].e THEN p[2] ELSE p[1]
                  sh == hi.e - lo.e
              IN  IF sh > Prec + 2 THEN hi
                  ELSE RoundRat(hi.m * 2^sh + lo.m, 1, lo.e) :
            p \in {<<x, y>>}} : TRUE

\* x - y
FSub(x, y) == FAdd(x, FNeg(y))

\* x * y
FMul(x, y) ==
    CHOOSE f \in
        {RoundRat(p[1].m * p[2].m, 1, p[1].e + p[2].e) : p \in {<<x, y>>}} : TRUE

\* x / y, y nonzero
FDiv(x, y) ==
    CHOOSE f \in
        {RoundRat(p[1].m * Sign(p[2].m), Abs(p[2].m), p[1].e - p[2].e) :
            p \in {<<x, y>>}} : TRUE

\* floor of the square root of n, lo^2 <= n < hi^2
RECURSIVE SqrtIter(_, _, _)
SqrtIter(n, lo, hi) ==
    IF hi - lo <= 1 THEN lo
    ELSE CHOOSE r \in
            {IF mid * mid <= n THEN SqrtIter(n, mid, hi) ELSE SqrtIter(n, lo, mid) :
                mid \in {(lo + hi) \div 2}} : TRUE

\* math.sqrt(x), x >= 0: the root of the mantissa scaled to an even exponent,
\* with a sticky bit for the part of the root below it
FSqrt(x) ==
    CHOOSE f \in
        {IF v.m = 0 THEN Zero
         ELSE CHOOSE g \in
            {CHOOSE h \in
                {RoundRat(2 * r + (IF r * r < v.m * 2^s THEN 1 ELSE 0), 1,
                          ((v.e - s) \div 2) - 1) :
                    r \in {SqrtIter(v.m * 2^s, 0, 2^(Prec + 1))}} : TRUE :
                s \in {IF (v.e - (Prec + 1)) % 2 = 0 THEN Prec + 1 ELSE Prec + 2}} : TRUE :
            v \in {x}} : TRUE

\* x = y as numbers (a float has one normal form)
FEq(x, y) == x.m = y.m /\ x.e = y.e

\* the least exponent among the nonzero floats of fs (0 when there is none)
ExpLo(fs) ==
    LET es == {f.e : f \in {g \in fs : g.m # 0}}
    IN  IF es = {} THEN 0 ELSE CHOOSE a \in es : \A b \in es : a <= b

\* the greatest exponent among the nonzero floats of fs (0 when there is none)
ExpHi(fs) ==
    LET es == {f.e : f \in {g \in fs : g.m # 0}}
    IN  IF es = {} THEN 0 ELSE CHOOSE a \in es : \A b \in es : a >= b

\* f as an integer multiple of 2^lo   (lo <= f.e)
Scaled(f, lo) == IF f.m = 0 THEN 0 ELSE f.m * 2^(f.e - lo)

\* floats whose exponents are close enough to compare as scaled integers
Comparable(fs) == ExpHi(fs) - ExpLo(fs) <= Prec + 4

\* |x - y| <= 2^(-k) * |z| as numbers   (k >= 0)
FWithin(x, y, z, k) ==
    LET lo == ExpLo({x, y, z})
    IN  IF ~Comparable({x, y, z}) THEN FEq(x, y)
        ELSE Abs(Scaled(x, lo) - Scaled(y, lo)) * 2^k <= Abs(Scaled(z, lo))

\* x = (c1 + c2) / 2 as numbers
IsMean(x, c1, c2) ==
    LET lo == ExpLo({x, c1, c2})
    IN  Comparable({x, c1, c2})
        /\ 2 * Scaled(x, lo) = Scaled(c1, lo) + Scaled(c2, lo)

\* |x - (c1 + c2) / 2| <= 2^(-k) * max(|c1|, |c2|) as numbers   (k >= 0)
NearMean(x, c1, c2, k) ==
    LET lo == ExpLo({x, c1, c2})
    IN  Comparable({x, c1, c2})
        /\ Abs(2 * Scaled(x, lo) - (Scaled(c1, lo) + Scaled(c2, lo))) * 2^k
             <= 2 * Max(Abs(Scaled(c1, lo)), Abs(Scaled(c2, lo)))

\* q - a1 = a2 - q as numbers
Equidistant(q, a1, a2) ==
    LET lo == ExpLo({q, a1, a2})
    IN  Comparable({q, a1, a2})
        /\ 2 * Scaled(q, lo) = Scaled(a1, lo) + Scaled(a2, lo)

(* ---------------------------- CalibrationMap --------------------------- *)

\* CalibrationMap(): the parallel views, empty
CalibrationMap ==
    [monitor_x_values |-> <<>>, monitor_y_values |-> <<>>,
     head_x_values |-> <<>>, head_y_values |-> <<>>,
     theta_values |-> <<>>, phi_values |-> <<>>]

\* CalibrationMap.add_calibration_point: every view grows by its field
add_calibration_point(map, monitor_x, monitor_y, head_x, head_y, theta, phi) ==
    [monitor_x_values |-> Append(map.monitor_x_values, monitor_x),
     monitor_y_values |-> Append(map.monitor_y_values, monitor_y),
     head_x_values |-> Append(map.head_x_values, head_x),
     head_y_values |-> Append(map.head_y_values, head_y),
     theta_values |-> Append(map.theta_values, theta),
     phi_values |-> Append(map.phi_values, phi)]

(* -------------------------- InterpolationAgent ------------------------- *)

\* InterpolationAgent.__init__ / initialize_cal_map
initialize_cal_map == CalibrationMap

\* InterpolationAgent.calibration_step, called with the positional arguments
\* args: Python binds them to the six parameters or raises TypeError
calibration_step(map, args) ==
    IF Len(args) # 6
    THEN [exc |-> "TypeError", map |-> map]
    ELSE [exc |-> None,
          map |-> add_calibration_point(map, args[1], args[2], args[3],
                                        args[4], args[5], args[6])]

\* epsilon = 1e-6
epsilon == RoundRat(1, 1000000, 0)

\* distance without the square and its root: angle - calib_angle, signed
distance_signed(angle, calib_angle) == FSub(angle, calib_angle)

\* math.sqrt((angle - calib_angle) ** 2)
distance(angle, calib_angle) ==
    CHOOSE r \in {FSqrt(FMul(d, d)) : d \in {FSub(angle, calib_angle)}} : TRUE

\* distances = [... for calib_angle in calibration_angles]
distances(angle, calibration_angles) ==
    [i \in 1..Len(calibration_angles) |-> distance(angle, calibration_angles[i])]

\* weights = [1 / (distance + epsilon) for distance in distances]
weights(angle, calibration_angles) ==
    CHOOSE r \in
        {[i \in 1..Len(ds) |-> FDiv(FromInt(1), FAdd(ds[i], epsilon))] :
            ds \in {distances(angle, calibration_angles)}} : TRUE

\* sum(...) of the first n terms: 0 + t1 + t2 + ..., left to right
RECURSIVE sum(_, _)
sum(terms, n) == IF n = 0 THEN Zero ELSE FAdd(sum(terms, n - 1), terms[n])

\* numerator = sum(w * coord for w, coord in zip(weights, calibration_coordinates));
\* zip stops at the shorter list
products(ws, calibration_coordinates) ==
    CHOOSE r \in
        {sum(ts, Len(ts)) :
            ts \in {[i \in 1..Min(Len(ws), Len(calibration_coordinates)) |->
                        FMul(ws[i], calibration_coordinates[i])]}} : TRUE

\* _interpolate without the division by sum(weights)
_interpolate_unnormalised(position, angle, calibration_coordinates, calibration_angles) ==
    CHOOSE r \in
        {IF Len(ws) = 0
         THEN [exc |-> "ZeroDivisionError", value |-> Zero]
         ELSE [exc |-> None, value |-> products(ws, calibration_coordinates)] :
            ws \in {weights(angle, calibration_angles)}} : TRUE

\* InterpolationAgent._interpolate
_interpolate(position, angle, calibration_coordinates, calibration_angles) ==
    CHOOSE r \in
        {CHOOSE q \in
            {IF nt[2].m = 0
             THEN [exc |-> "ZeroDivisionError", value |-> Zero]
             ELSE [exc |-> None, value |-> FDiv(nt[1], nt[2])] :
                nt \in {<<products(ws, calibration_coordinates), sum(ws, Len(ws))>>}} : TRUE :
            ws \in {weights(angle, calibration_angles)}} : TRUE

\* InterpolationAgent.calculate_point_of_regard, called with the positional
\* arguments args (four parameters, else TypeError)
calculate_point_of_regard(map, args) ==
    IF Len(args) # 4
    THEN [exc |-> "TypeError", ret |-> "raised", x |-> Zero, y |-> Zero]
    ELSE CHOOSE r \in
            {IF x_screen.exc # None
             THEN [exc |-> x_screen.exc, ret |-> "raised", x |-> Zero, y |-> Zero]
             ELSE CHOOSE q \in
                {IF y_screen.exc # None
                 THEN [exc |-> y_screen.exc, ret |-> "raised", x |-> Zero, y |-> Zero]
                 ELSE [exc |-> None, ret |-> "point",
                       x |-> x_screen.value, y |-> y_screen.value] :
                    y_screen \in {_interpolate(args[2], args[4],
                                     map.monitor_y_values, map.phi_values)}} : TRUE :
                x_screen \in {_interpolate(args[1], args[3],
                                 map.monitor_x_values, map.theta_values)}} : TRUE

(* ----------------------- CalibrationProfileStore ---------------------- *)

\* the ids the store can hand out
ProfileIds == 1..MaxProfiles

\* the slot of an id that holds no profile
NoProfile == [present |-> FALSE, name |-> "", map |-> CalibrationMap]

\* CalibrationProfileStore.save_profile(name, map): a snapshot of the map under
\* a new id
cds_save_profile(ps, nid, name, map) ==
    [exc |-> None, id |-> nid, next_id |-> nid + 1,
     profiles |-> [ps EXCEPT ![nid] = [present |-> TRUE, name |-> name, map |-> map]]]

\* CalibrationProfileStore.load_profile(id): the stored map, or ProfileNotFoundError
cds_load_profile(ps, id) ==
    IF id \in DOMAIN ps /\ ps[id].present
    THEN [exc |-> None, map |-> ps[id].map]
    ELSE [exc |-> "ProfileNotFoundError", map |-> CalibrationMap]

\* CalibrationProfileStore.list_profiles(): the metadata of the stored profiles,
\* by id
RECURSIVE cds_list_upto(_, _)
cds_list_upto(ps, n) ==
    IF n = 0 THEN <<>>
    ELSE IF ps[n].present
         THEN Append(cds_list_upto(ps, n - 1), [id |-> n, profile_name |-> ps[n].name])
         ELSE cds_list_upto(ps, n - 1)

cds_list_profiles(ps) == cds_list_upto(ps, MaxProfiles)

\* CalibrationProfileStore.delete_profile(id): ProfileNotFoundError if absent
cds_delete_profile(ps, id) ==
    IF id \in DOMAIN ps /\ ps[id].present
    THEN [exc |-> None, profiles |-> [ps EXCEPT ![id] = NoProfile]]
    ELSE [exc |-> "ProfileNotFoundError", profiles |-> ps]

(* ------------------------------ GazePredictor -------------------------- *)

\* the images the boundary hands in
Frames == {"face_a", "face_b", "no_face"}

\* GazePredictor.predict_gaze_vector(image): (head_x, head_y, theta, phi), or
\* PredictionError when no face is found
predict_gaze_vector(frame) ==
    IF frame = "face_a"
    THEN [exc |-> None, head_x |-> Zero, head_y |-> Zero,
          theta |-> Tenths(1), phi |-> Tenths(1)]
    ELSE IF frame = "face_b"
    THEN [exc |-> None, head_x |-> FromInt(1), head_y |-> FromInt(2),
          theta |-> Tenths(3), phi |-> Tenths(3)]
    ELSE [exc |-> "PredictionError", head_x |-> Zero, head_y |-> Zero,
          theta |-> Zero, phi |-> Zero]

(* --------------------------- VisionTrackingEngine ---------------------- *)

\* save_profile(name): self.cds.save_profile(name, self.cal_agent.calibration_map)
save_profile(ps, nid, name, map) == cds_save_profile(ps, nid, name, map)

\* load_profile that drops what the store returns
load_profile_keeps_active(ps, map, id) ==
    [exc |-> cds_load_profile(ps, id).exc, map |-> map]

\* load_profile that clears the active map before asking the store
load_profile_resets_on_failure(ps, map, id) ==
    [exc |-> cds_load_profile(ps, id).exc, map |-> cds_load_profile(ps, id).map]

\* load_profile(id): self.cal_agent.calibration_map = self.cds.load_profile(id);
\* an exception of the store leaves before the assignment
load_profile(ps, map, id) ==
    CHOOSE o \in
        {IF r.exc # None THEN [exc |-> r.exc, map |-> map]
                         ELSE [exc |-> None, map |-> r.map] :
            r \in {cds_load_profile(ps, id)}} : TRUE

\* list_profiles(): return self.cds.list_profiles()
list_profiles(ps) == cds_list_profiles(ps)

\* delete_profile that never reaches the store
delete_profile_skips_store(ps, id) == [exc |-> None, profiles |-> ps]

\* delete_profile(id): self.cds.delete_profile(id)
delete_profile(ps, id) == cds_delete_profile(ps, id)

\* run_single_calibration_step(x, y, frame): the predictor, then
\* self.cal_agent.calibration_step(x, y, theta, phi), four positional arguments
run_single_calibration_step(map, x, y, frame) ==
    CHOOSE o \in
        {IF g.exc # None THEN [exc |-> g.exc, map |-> map]
                         ELSE calibration_step(map, <<x, y, g.theta, g.phi>>) :
            g \in {predict_gaze_vector(frame)}} : TRUE

\* run_calibration_steps(calibration_data), after the first n elements: each
\* element inside try / except Exception, a failure printed
RECURSIVE run_calibration_steps_upto(_, _, _)
run_calibration_steps_upto(map, calibration_data, n) ==
    IF n = 0 THEN [map |-> map, failures |-> 0]
    ELSE CHOOSE o \in
            {IF Len(calibration_data[n]) < 3
             THEN [map |-> before.map, failures |-> before.failures + 1]
             ELSE CHOOSE q \in
                {IF r.exc # None
                 THEN [map |-> before.map, failures |-> before.failures + 1]
                 ELSE [map |-> r.map, failures |-> before.failures] :
                    r \in {run_single_calibration_step(before.map,
                              calibration_data[n][1], calibration_data[n][2],
                              calibration_data[n][3])}} : TRUE :
                before \in {run_calibration_steps_upto(map, calibration_data, n - 1)}} : TRUE

run_calibration_steps(map, calibration_data) ==
    run_calibration_steps_upto(map, calibration_data, Len(calibration_data))

\* predict_gaze_position with the predictor inside the try, under except Exception
predict_gaze_position_masks_predictor(map, image) ==
    CHOOSE o \in
        {IF g.exc # None
         THEN [exc |-> None, ret |-> "none_pair", x |-> Zero, y |-> Zero]
         ELSE CHOOSE q \in
            {IF r.exc # None
             THEN [exc |-> None, ret |-> "none_pair", x |-> Zero, y |-> Zero]
             ELSE r :
                r \in {calculate_point_of_regard(map, <<g.theta, g.phi>>)}} : TRUE :
            g \in {predict_gaze_vector(image)}} : TRUE

\* predict_gaze_position(image): the predictor, then
\* self.cal_agent.calculate_point_of_regard(theta, phi), two positional
\* arguments, inside try / except ZeroDivisionError
predict_gaze_position(map, image) ==
    CHOOSE o \in
        {IF g.exc # None
         THEN [exc |-> g.exc, ret |-> "raised", x |-> Zero, y |-> Zero]
         ELSE CHOOSE q \in
            {IF r.exc = "ZeroDivisionError"
             THEN [exc |-> None, ret |-> "none_pair", x |-> Zero, y |-> Zero]
             ELSE r :
                r \in {calculate_point_of_regard(map, <<g.theta, g.phi>>)}} : TRUE :
            g \in {predict_gaze_vector(image)}} : TRUE

(* ------------------------------- results ------------------------------- *)

\* what the last call did: the operation, its arguments, the exception it
\* raised (None: it returned), what it returned
Outcome(op, args, exc, ret) ==
    [op |-> op, args |-> args, exc |-> exc, ret |-> ret,
     x |-> Zero, y |-> Zero, listing |-> <<>>, failures |-> 0]

Len6(map) ==
    {Len(map.monitor_x_values), Len(map.monitor_y_values), Len(map.head_x_values),
     Len(map.head_y_values), Len(map.theta_values), Len(map.phi_values)}

Size(map) == Len(map.theta_values)

(* -------------------- the agent on its own: SpecInterp ----------------- *)

\* (monitor_x, theta) of the calibration samples
XPart ==
    {<<FromInt(100), Tenths(0)>>, <<FromInt(500), Tenths(2)>>,
     <<FromInt(133), Tenths(2)>>, <<FromInt(1920), Tenths(-5)>>}

\* (monitor_y, phi, head_x, head_y) of the calibration samples
YPart ==
    {<<FromInt(100), Tenths(1), Zero, Zero>>,
     <<FromInt(500), Tenths(3), FromInt(1), FromInt(2)>>}

\* the queries (head_x, head_y, theta, phi)
Queries ==
    {<<h[1], h[2], theta, h[3]>> :
        h \in {<<Zero, Zero, Tenths(2)>>, <<FromInt(1), FromInt(2), Tenths(3)>>},
        theta \in {Tenths(1), Tenths(2)}}

\* CalibrationProfileStore(): no profile, the first id to hand out; nothing
\* saved or deleted through the engine yet
StoreInit ==
    /\ profiles = [i \in ProfileIds |-> NoProfile]
    /\ next_id = 1
    /\ saved = [i \in ProfileIds |-> CalibrationMap]
    /\ deleted = {}

InitInterp ==
    /\ calibration_map = initialize_cal_map
    /\ StoreInit
    /\ result = Outcome("init", <<>>, None, "none")

\* agent.calibration_step(monitor_x, monitor_y, head_x, head_y, theta, phi)
AgentCalibrationStep(xs, ys) ==
    /\ Size(calibration_map) < MaxSamples
    /\ \E xp \in xs, yp \in ys :
          \E r \in {calibration_step(calibration_map,
                                     <<xp[1], yp[1], yp[3], yp[4], xp[2], yp[2]>>)} :
              /\ calibration_map' = r.map
              /\ result' = Outcome("calibration_step",
                                   <<xp[1], yp[1], yp[3], yp[4], xp[2], yp[2]>>,
                                   r.exc, "none")
    /\ UNCHANGED <<profiles, next_id, saved, deleted>>

\* agent.calculate_point_of_regard(head_x, head_y, theta, phi)
AgentCalculatePointOfRegard(qs) ==
    /\ \E q \in qs :
          \E r \in {calculate_point_of_regard(calibration_map, q)} :
              result' = [Outcome("calculate_point_of_regard", q, r.exc, r.ret)
                            EXCEPT !.x = r.x, !.y = r.y]
    /\ UNCHANGED <<calibration_map, profiles, next_id, saved, deleted>>

InterpCalibrate == AgentCalibrationStep(XPart, YPart)

InterpQuery == AgentCalculatePointOfRegard(Queries)

NextInterp == InterpCalibrate \/ InterpQuery

SpecInterp == InitInterp /\ [][NextInterp]_vars

(* ---------------------- the engine and its store: Spec ------------------ *)

\* the names profiles are saved under
Names == {"profile_name"}

\* the ids a caller may ask for: the store's, and one it never hands out
AskedIds == 1..(MaxProfiles + 1)

\* the calibration session shows its targets in a fixed order: the k-th sample
\* recorded is (monitor_x, theta) and (monitor_y, phi, head_x, head_y) of target k
SessionXPart(k) == {<<FromInt(100 * k), Tenths(k)>>}

SessionYPart(k) == {<<FromInt(100 * k + 40), Tenths(-k), FromInt(k), FromInt(k + 10)>>}

\* the elements of a batch: a target with its frame, or a malformed entry (a
\* tuple without its frame)
Elements ==
    {<<FromInt(100), FromInt(100), "face_a">>,
     <<FromInt(500), FromInt(500)>>}

Batches == UNION {[1..n -> Elements] : n \in 0..MaxBatch}

Init ==
    /\ calibration_map = initialize_cal_map
    /\ StoreInit
    /\ result = Outcome("init", <<>>, None, "none")

CalibrateAgent ==
    AgentCalibrationStep(SessionXPart(Size(calibration_map) + 1),
                         SessionYPart(Size(calibration_map) + 1))

SaveProfile ==
    /\ next_id <= MaxProfiles
    /\ \E name \in Names :
          \E r \in {save_profile(profiles, next_id, name, calibration_map)} :
              /\ profiles' = r.profiles
              /\ next_id' = r.next_id
              /\ saved' = [saved EXCEPT ![r.id] = calibration_map]
              /\ result' = Outcome("save_profile", <<name>>, r.exc, "none")
    /\ UNCHANGED <<calibration_map, deleted>>

LoadProfile ==
    /\ \E id \in AskedIds :
          \E r \in {load_profile(profiles, calibration_map, id)} :
              /\ calibration_map' = r.map
              /\ result' = Outcome("load_profile", <<id>>, r.exc,
                                   IF r.exc = None THEN "none" ELSE "raised")
    /\ UNCHANGED <<profiles, next_id, saved, deleted>>

ListProfiles ==
    /\ result' = [Outcome("list_profiles", <<>>, None, "listing")
                     EXCEPT !.listing = list_profiles(profiles)]
    /\ UNCHANGED <<calibration_map, profiles, next_id, saved, deleted>>

DeleteProfile ==
    /\ \E id \in AskedIds :
          \E r \in {delete_profile(profiles, id)} :
              /\ profiles' = r.profiles
              /\ deleted' = IF r.exc = None THEN deleted \cup {id} ELSE deleted
              /\ result' = Outcome("delete_profile", <<id>>, r.exc,
                                   IF r.exc = None THEN "none" ELSE "raised")
    /\ UNCHANGED <<calibration_map, next_id, saved>>

RunSingleCalibrationStep ==
    /\ Size(calibration_map) < MaxSamples
    /\ \E xp \in SessionXPart(Size(calibration_map) + 1),
          yp \in SessionYPart(Size(calibration_map) + 1), frame \in Frames :
          \E r \in {run_single_calibration_step(calibration_map, xp[1], yp[1], frame)} :
              /\ calibration_map' = r.map
              /\ result' = Outcome("run_single_calibration_step",
                                   <<xp[1], yp[1], frame>>, r.exc,
                                   IF r.exc = None THEN "none" ELSE "raised")
    /\ UNCHANGED <<profiles, next_id, saved, deleted>>

RunCalibrationSteps ==
    /\ \E batch \in Batches :
          /\ Size(calibration_map) + Len(batch) <= MaxSamples + MaxBatch
          /\ \E r \in {run_calibration_steps(calibration_map, batch)} :
              /\ calibration_map' = r.map
              /\ result' = [Outcome("run_calibration_steps", <<batch>>, None, "none")
                               EXCEPT !.failures = r.failures]
    /\ UNCHANGED <<profiles, next_id, saved, deleted>>

PredictGazePosition ==
    /\ \E image \in Frames :
          \E r \in {predict_gaze_position(calibration_map, image)} :
              result' = [Outcome("predict_gaze_position", <<image>>, r.exc, r.ret)
                            EXCEPT !.x = r.x, !.y = r.y]
    /\ UNCHANGED <<calibration_map, profiles, next_id, saved, deleted>>

Next ==
    \/ CalibrateAgent
    \/ SaveProfile
    \/ LoadProfile
    \/ ListProfiles
    \/ DeleteProfile
    \/ RunSingleCalibrationStep
    \/ RunCalibrationSteps
    \/ PredictGazePosition

Spec == Init /\ [][Next]_vars

(* -------------------------------- claims ------------------------------- *)

Queried == result.op = "calculate_point_of_regard"

AllViews(n) == Len6(calibration_map) = {n}

\* C1 (as claimed): a point of regard asked of an empty calibration map raises
\* EmptyCalibrationError, for every query, never a raw ZeroDivisionError.
C1_EmptyMapRaisesEmptyCalibrationError ==
    (Queried /\ AllViews(0)) => result.exc = "EmptyCalibrationError"

\* C8 (as claimed): with exactly one sample, the point of regard is exactly the
\* sample's (monitor_x, monitor_y), whatever the query.
C8_SingleSampleExact ==
    (Queried /\ AllViews(1)) =>
        /\ result.exc = None
        /\ FEq(result.x, calibration_map.monitor_x_values[1])
        /\ FEq(result.y, calibration_map.monitor_y_values[1])

\* C8 (amended): with exactly one sample, the call returns, and each returned
\* coordinate is the sample's up to the two roundings of (w * c) / w: it
\* differs from it by at most 2^(1 - Prec) of its magnitude.
C8_SingleSampleWithinRounding ==
    (Queried /\ AllViews(1)) =>
        /\ result.exc = None
        /\ FWithin(result.x, calibration_map.monitor_x_values[1],
                   calibration_map.monitor_x_values[1], Prec - 1)
        /\ FWithin(result.y, calibration_map.monitor_y_values[1],
                   calibration_map.monitor_y_values[1], Prec - 1)

\* C8: one sample, queried at angles that are not the sample's
C8_Witness ==
    /\ Queried /\ AllViews(1) /\ result.exc = None
    /\ ~FEq(result.args[3], calibration_map.theta_values[1])
    /\ ~FEq(result.args[4], calibration_map.phi_values[1])
    /\ calibration_map.monitor_x_values[1].m # 0

EquidistantQuery ==
    /\ Queried /\ AllViews(2)
    /\ Equidistant(result.args[3], calibration_map.theta_values[1],
                   calibration_map.theta_values[2])

\* C9 (as claimed): with exactly two samples and a query theta equidistant from
\* their thetas, the weights are equal and screen_x is the arithmetic mean of
\* the two monitor_x, whatever head_x, head_y, phi and the samples' monitor_y
\* and phi.
C9_EquidistantIsMean ==
    EquidistantQuery =>
        /\ result.exc = None
        /\ weights(result.args[3], calibration_map.theta_values)[1]
             = weights(result.args[3], calibration_map.theta_values)[2]
        /\ IsMean(result.x, calibration_map.monitor_x_values[1],
                  calibration_map.monitor_x_values[2])

\* C9 (amended): with exactly two samples and a query theta equidistant from
\* their thetas, the weights are equal and screen_x is the arithmetic mean of
\* the two monitor_x up to rounding: it differs from the mean by at most
\* 2^(2 - Prec) of the larger monitor_x magnitude, whatever head_x, head_y, phi
\* and the samples' monitor_y and phi.
C9_EquidistantNearMean ==
    EquidistantQuery =>
        /\ result.exc = None
        /\ weights(result.args[3], calibration_map.theta_values)[1]
             = weights(result.args[3], calibration_map.theta_values)[2]
        /\ NearMean(result.x, calibration_map.monitor_x_values[1],
                    calibration_map.monitor_x_values[2], Prec - 2)

\* C9: two samples of different theta and monitor_x, different monitor_y and
\* phi, queried halfway between the thetas
C9_Witness ==
    /\ EquidistantQuery /\ result.exc = None
    /\ ~FEq(calibration_map.theta_values[1], calibration_map.theta_values[2])
    /\ ~FEq(calibration_map.monitor_x_values[1], calibration_map.monitor_x_values[2])
    /\ ~FEq(calibration_map.monitor_y_values[1], calibration_map.monitor_y_values[2])
    /\ ~FEq(calibration_map.phi_values[1], calibration_map.phi_values[2])

\* the predictor succeeds on the frame
Predicts(frame) == predict_gaze_vector(frame).exc = None

\* C2 (as claimed): predict_gaze_position on an empty active map, the predictor
\* succeeding, gives an explicit "uncalibrated" outcome with the error
\* surfaced, never the pair (None, None).
C2_EmptyMapIsUncalibrated ==
    (result.op = "predict_gaze_position" /\ AllViews(0) /\ Predicts(result.args[1])) =>
        /\ result.exc = "EmptyCalibrationError" \/ result.ret = "uncalibrated"
        /\ result.ret # "none_pair"

\* the sample run_single_calibration_step(x, y, frame) is to record
StepSample(map, x, y, frame) ==
    add_calibration_point(map, x, y,
        predict_gaze_vector(frame).head_x, predict_gaze_vector(frame).head_y,
        predict_gaze_vector(frame).theta, predict_gaze_vector(frame).phi)

\* a batch element is valid: it has its frame and the predictor succeeds on it
Valid(el) == Len(el) = 3 /\ Predicts(el[3])

\* the map after the valid ones of the first n elements are recorded in order
RECURSIVE ExpectedAfter(_, _, _)
ExpectedAfter(map, batch, n) ==
    IF n = 0 THEN map
    ELSE IF Valid(batch[n])
         THEN StepSample(ExpectedAfter(map, batch, n - 1),
                         batch[n][1], batch[n][2], batch[n][3])
         ELSE ExpectedAfter(map, batch, n - 1)

\* C3 (as claimed): run_calibration_steps returns normally, the active map
\* grown by one sample per valid element, in batch order, and one failure
\* reported per malformed element.
C3_BatchRecordsEveryValidElement ==
    [][result'.op = "run_calibration_steps" =>
          /\ result'.exc = None
          /\ calibration_map' = ExpectedAfter(calibration_map, result'.args[1],
                                              Len(result'.args[1]))
          /\ result'.failures
               = Cardinality({n \in 1..Len(result'.args[1]) : ~Valid(result'.args[1][n])})
      ]_vars

\* C4 (as claimed): run_single_calibration_step(x, y, frame), the predictor
\* succeeding, completes without error and appends exactly the sample
\* (x, y, head_x, head_y, theta, phi), the earlier samples kept in order.
C4_StepAppendsOneSample ==
    [][(result'.op = "run_single_calibration_step" /\ Predicts(result'.args[3])) =>
          /\ result'.exc = None
          /\ calibration_map' = StepSample(calibration_map, result'.args[1],
                                           result'.args[2], result'.args[3])
      ]_vars

\* C5: a load_profile(i) that succeeds leaves the active map equal, view by
\* view and element by element, to the map as it was when save_profile
\* stored it under i, whatever was calibrated or loaded in between.
C5_LoadRestoresSavedMap ==
    (result.op = "load_profile" /\ result.exc = None) =>
        /\ result.args[1] \in ProfileIds
        /\ calibration_map = saved[result.args[1]]
        /\ Cardinality(Len6(calibration_map)) = 1

\* C5: a saved map with samples is loaded back while the store holds another
\* profile with a different map
C5_Witness ==
    /\ result.op = "load_profile" /\ result.exc = None
    /\ Size(calibration_map) >= 1
    /\ \E j \in ProfileIds :
          /\ j # result.args[1]
          /\ profiles[j].present
          /\ profiles[j].map # calibration_map

\* C6: once delete_profile(i) has succeeded, every load_profile(i) fails with
\* ProfileNotFoundError and list_profiles() does not show i.
C6_DeletedProfileStaysGone ==
    /\ (result.op = "load_profile" /\ result.args[1] \in deleted) =>
          result.exc = "ProfileNotFoundError"
    /\ result.op = "list_profiles" =>
          \A k \in 1..Len(result.listing) : result.listing[k].id \notin deleted

\* C6: a load of a deleted profile, while another profile is still stored
C6_Witness ==
    /\ result.op = "load_profile"
    /\ result.args[1] \in deleted
    /\ \E j \in ProfileIds : profiles[j].present

\* C7: when the predictor fails on the frame, run_single_calibration_step and
\* predict_gaze_position raise PredictionError, return nothing in its place,
\* and leave the active map as it was.
C7_PredictionErrorPropagates ==
    [][(\/ (result'.op = "run_single_calibration_step" /\ ~Predicts(result'.args[3]))
        \/ (result'.op = "predict_gaze_position" /\ ~Predicts(result'.args[1]))) =>
          /\ result'.exc = "PredictionError"
          /\ result'.ret = "raised"
          /\ calibration_map' = calibration_map
      ]_vars

\* C7: the predictor has failed in predict_gaze_position on a calibrated map
C7_Witness ==
    /\ result.op = "predict_gaze_position"
    /\ result.exc = "PredictionError"
    /\ Size(calibration_map) >= 1

\* C10: save_profile, list_profiles, delete_profile and a load_profile that
\* fails with ProfileNotFoundError leave the active map as it was.
C10_OnlyLoadReplacesActiveMap ==
    [][(\/ result'.op \in {"save_profile", "list_profiles", "delete_profile"}
        \/ (result'.op = "load_profile" /\ result'.exc = "ProfileNotFoundError")) =>
          calibration_map' = calibration_map
      ]_vars

\* C10: a load of an unknown id has failed on a calibrated map
C10_Witness ==
    /\ result.op = "load_profile"
    /\ result.exc = "ProfileNotFoundError"
    /\ Size(calibration_map) >= 1

====
